---- MODULE Spec2Model ----
(***************************************************************************)
(* flakyguard: the run-history store (adapters/storage.py), the windowed   *)
(* flakiness classification (core/models.py) and the detection engine      *)
(* (core/detector.py).                                                     *)
(*                                                                         *)
(* Time is counted in whole hours.  A timezone-aware datetime is the       *)
(* record [utc, off]: the instant and the UTC offset it is written with.   *)
(* Python compares aware datetimes by instant; SQLite compares the stored  *)
(* ISO-8601 text, which spells the local wall-clock time (utc + off)       *)
(* followed by the offset.                                                 *)
(*                                                                         *)
(* A float rate failures / len(recent) is the exact fraction [num, den];   *)
(* fractions are compared by cross-multiplication.  For the run counts and *)
(* thresholds used here two different fractions differ by far more than    *)
(* one double-precision ulp, so float comparison agrees with it.           *)
(***************************************************************************)
EXTENDS Integers, Sequences, FiniteSets, TLC

VARIABLES
    test_results,   \* table test_results, rows in rowid (insertion) order
    metadata,       \* table metadata: set of [key, value] rows
    appended,       \* history variable: results passed to save_result since the last clear
    histories,      \* the list of TestHistory values handed to the core functions
    ret,            \* the last call made and what it returned
    conns,          \* the sqlite3 connection of each call in flight, by process
    plugin,         \* the registered FlakyGuardPlugin instance: config and flaky_tests_map
    items,          \* the host's collected items by nodeid: markers and reports delivered
    quarantined     \* history variable: ids flagged by a pre-run step since the last clear

vars == <<test_results, metadata, appended, histories, ret, conns, plugin, items, quarantined>>

----------------------------------------------------------------------------
(* Bounds *)

MaxRows == 3            \* rows in test_results
MaxResults == 4         \* results in a history given to a TestHistory method
MaxDetectResults == 3   \* results in a history given to detect_flaky_tests

TestIds == {"a", "b"}
Windows == -1 .. MaxResults + 1

----------------------------------------------------------------------------
(* core/models.py *)

TestOutcome == {"PASSED", "FAILED", "ERROR", "SKIPPED"}

QuarantineMode == {"WARN", "SKIP", "RETRY"}

\* a float that is the quotient n / d
Rate(n, d) == [num |-> n, den |-> d]

RateGt(x, y) == x.num * y.den > y.num * x.den

RateEq(x, y) == x.num * y.den = y.num * x.den

RateGe(a, b) == a.num * b.den >= b.num * a.den

\* pydantic's error for a value outside a Field's constraints
ValidationError == [raised |-> "ValidationError"]

Min(a, b) == IF a <= b THEN a ELSE b

\* results[-n:] for n > 0
LastN(s, n) == IF n >= Len(s) THEN s ELSE SubSeq(s, Len(s) - n + 1, Len(s))

\* results[:n] for n >= 0
FirstN(s, n) == IF n >= Len(s) THEN s ELSE SubSeq(s, 1, n)

IsFailure(r) == r.outcome \in {"FAILED", "ERROR"}

IsPassed(r) == r.outcome = "PASSED"

\* sum(1 for r in recent if r.outcome in (FAILED, ERROR))
CountFailures(s) == Cardinality({i \in 1 .. Len(s) : IsFailure(s[i])})

\* any(r.outcome == PASSED for r in recent)
AnyPassed(s) == \E i \in 1 .. Len(s) : IsPassed(s[i])

\* any(r.outcome in (FAILED, ERROR) for r in recent)
AnyFailure(s) == \E i \in 1 .. Len(s) : IsFailure(s[i])

recent_results_first(h, window_size) ==
    IF window_size > 0 THEN FirstN(h.results, window_size) ELSE h.results

recent_results(h, window_size) ==
    IF window_size > 0 THEN LastN(h.results, window_size) ELSE h.results

flakiness_rate_no_skipped(h, window_size) ==
    IF h.results = <<>> THEN Rate(0, 1)
    ELSE LET recent == recent_results(h, window_size)
             counted == Cardinality({i \in 1 .. Len(recent) : recent[i].outcome # "SKIPPED"})
         IN  IF counted = 0 THEN Rate(0, 1)
             ELSE Rate(CountFailures(recent), counted)

\* failures are divided by the passed results of the window
flakiness_rate_ratio(h, window_size) ==
    IF h.results = <<>> THEN Rate(0, 1)
    ELSE LET recent == recent_results(h, window_size)
             passed == Cardinality({i \in 1 .. Len(recent) : IsPassed(recent[i])})
         IN  IF passed = 0 THEN Rate(0, 1)
             ELSE Rate(CountFailures(recent), passed)

flakiness_rate(h, window_size) ==
    IF h.results = <<>> THEN Rate(0, 1)
    ELSE LET recent == recent_results(h, window_size)
         IN  IF recent = <<>> THEN Rate(0, 1)
             ELSE Rate(CountFailures(recent), Len(recent))

is_flaky_either(h, window_size, threshold) ==
    IF Len(h.results) < 2 THEN FALSE
    ELSE LET recent == recent_results(h, window_size)
         IN  IF Len(recent) < 2 THEN FALSE
             ELSE LET has_success == AnyPassed(recent)
                      has_failure == AnyFailure(recent)
                  IN  IF ~(has_success \/ has_failure) THEN FALSE
                      ELSE RateGt(flakiness_rate(h, window_size), threshold)

is_flaky_ge(h, window_size, threshold) ==
    IF Len(h.results) < 2 THEN FALSE
    ELSE LET recent == recent_results(h, window_size)
         IN  IF Len(recent) < 2 THEN FALSE
             ELSE LET has_success == AnyPassed(recent)
                      has_failure == AnyFailure(recent)
                  IN  IF ~(has_success /\ has_failure) THEN FALSE
                      ELSE ~RateGt(threshold, flakiness_rate(h, window_size))

\* the check for both a success and a failure is left out
is_flaky_rate_only(h, window_size, threshold) ==
    IF Len(h.results) < 2 THEN FALSE
    ELSE LET recent == recent_results(h, window_size)
         IN  IF Len(recent) < 2 THEN FALSE
             ELSE RateGt(flakiness_rate(h, window_size), threshold)

\* the minimum of two stored results is raised to three
is_flaky_min3(h, window_size, threshold) ==
    IF Len(h.results) < 3 THEN FALSE
    ELSE LET recent == recent_results(h, window_size)
         IN  IF Len(recent) < 2 THEN FALSE
             ELSE LET has_success == AnyPassed(recent)
                      has_failure == AnyFailure(recent)
                  IN  IF ~(has_success /\ has_failure) THEN FALSE
                      ELSE RateGt(flakiness_rate(h, window_size), threshold)

is_flaky(h, window_size, threshold) ==
    IF Len(h.results) < 2 THEN FALSE
    ELSE LET recent == recent_results(h, window_size)
         IN  IF Len(recent) < 2 THEN FALSE
             ELSE LET has_success == AnyPassed(recent)
                      has_failure == AnyFailure(recent)
                  IN  IF ~(has_success /\ has_failure) THEN FALSE
                      ELSE RateGt(flakiness_rate(h, window_size), threshold)

----------------------------------------------------------------------------
(* core/detector.py *)

Config(w, t, m) == [window_size |-> w, threshold |-> t, quarantine_mode |-> m]

FlakyTest_first_seen(h, config) ==
    LET recent == recent_results(h, config.window_size)
    IN  [test_id |-> h.test_id,
         flakiness_rate |-> flakiness_rate(h, config.window_size),
         total_runs |-> Len(h.results),
         failures |-> CountFailures(recent),
         last_seen |-> recent[1].timestamp,
         quarantine_mode |-> config.quarantine_mode]

\* the FlakyTest built for a history that passed is_flaky; the constructor
\* validates flakiness_rate (ge=0.0, le=1.0), total_runs and failures (ge=0)
FlakyTest(h, config) ==
    LET recent == recent_results(h, config.window_size)
        flaky == [test_id |-> h.test_id,
                  flakiness_rate |-> flakiness_rate(h, config.window_size),
                  total_runs |-> Len(recent),
                  failures |-> CountFailures(recent),
                  last_seen |-> recent[Len(recent)].timestamp,
                  quarantine_mode |-> config.quarantine_mode]
    IN  IF /\ RateGe(flaky.flakiness_rate, Rate(0, 1))
           /\ RateGe(Rate(1, 1), flaky.flakiness_rate)
           /\ flaky.total_runs >= 0
           /\ flaky.failures >= 0
        THEN flaky
        ELSE ValidationError

\* the for loop: one FlakyTest per history that is flaky, in input order
RECURSIVE collect_flaky(_, _)
collect_flaky(hs, config) ==
    IF hs = <<>> THEN <<>>
    ELSE LET history == Head(hs)
             rest == collect_flaky(Tail(hs), config)
         IN  IF ~is_flaky(history, config.window_size, config.threshold) THEN rest
             ELSE IF recent_results(history, config.window_size) = <<>> THEN rest
             ELSE <<FlakyTest(history, config)>> \o rest

Front(s) == SubSeq(s, 1, Len(s) - 1)

\* x goes behind every element whose rate is >= its own
RECURSIVE InsertDescending(_, _)
InsertDescending(x, s) ==
    IF s = <<>> THEN <<x>>
    ELSE IF RateGt(x.flakiness_rate, Head(s).flakiness_rate) THEN <<x>> \o s
    ELSE <<Head(s)>> \o InsertDescending(x, Tail(s))

\* x goes in front of every element whose rate is <= its own
RECURSIVE InsertDescendingFront(_, _)
InsertDescendingFront(x, s) ==
    IF s = <<>> THEN <<x>>
    ELSE IF ~RateGt(Head(s).flakiness_rate, x.flakiness_rate) THEN <<x>> \o s
    ELSE <<Head(s)>> \o InsertDescendingFront(x, Tail(s))

RECURSIVE InsertAscending(_, _)
InsertAscending(x, s) ==
    IF s = <<>> THEN <<x>>
    ELSE IF RateGt(Head(s).flakiness_rate, x.flakiness_rate) THEN <<x>> \o s
    ELSE <<Head(s)>> \o InsertAscending(x, Tail(s))

RECURSIVE sorted_ascending(_)
sorted_ascending(s) ==
    IF s = <<>> THEN <<>> ELSE InsertAscending(s[Len(s)], sorted_ascending(Front(s)))

RECURSIVE sorted_ties_reversed(_)
sorted_ties_reversed(s) ==
    IF s = <<>> THEN <<>>
    ELSE InsertDescendingFront(s[Len(s)], sorted_ties_reversed(Front(s)))

\* sorted(flaky_tests, key=lambda f: f.flakiness_rate, reverse=True): Python's
\* sort is stable, also with reverse=True
RECURSIVE sorted_by_rate_reverse(_)
sorted_by_rate_reverse(s) ==
    IF s = <<>> THEN <<>>
    ELSE InsertDescending(s[Len(s)], sorted_by_rate_reverse(Front(s)))

\* a FlakyTest constructor in the loop raises
detect_raises(hs, config) ==
    LET flaky_tests == collect_flaky(hs, config)
    IN  \E i \in 1 .. Len(flaky_tests) : flaky_tests[i] = ValidationError

\* the list returned, or the ValidationError that leaves the function
detect_flaky_tests(hs, config) ==
    IF detect_raises(hs, config) THEN ValidationError
    ELSE sorted_by_rate_reverse(collect_flaky(hs, config))

----------------------------------------------------------------------------
(* Inputs of the core functions *)

Stamp(u, o) == [utc |-> u, off |-> o]

Env(t) == [python_version |-> "3.10.0", platform |-> "linux", timestamp |-> t]

\* a TestResult; duration is the float 1.0 throughout
Result(id, o, t) ==
    [test_id |-> id, outcome |-> o, duration |-> 1, timestamp |-> t,
     environment_info |-> Env(t)]

SeqsUpTo(S, n) == UNION {[1 .. k -> S] : k \in 0 .. n}

\* a history as the tests build it: result i was run at instant i (UTC)
MakeHistory(id, outcomes) ==
    [test_id |-> id,
     results |-> [i \in 1 .. Len(outcomes) |-> Result(id, outcomes[i], Stamp(i, 0))]]

Thresholds == {Rate(0, 1), Rate(1, 4), Rate(1, 3), Rate(1, 2), Rate(1, 1)}

----------------------------------------------------------------------------
(* adapters/storage.py *)

\* datetime.isoformat(): the wall-clock time at the datetime's own offset,
\* followed by that offset
isoformat(t) == [local |-> t.utc + t.off, off |-> t.off]

\* datetime.fromisoformat()
fromisoformat(s) == [utc |-> s.local - s.off, off |-> s.off]

\* TestOutcome.value
OutcomeValue(o) ==
    CASE o = "PASSED" -> "passed"
      [] o = "FAILED" -> "failed"
      [] o = "ERROR" -> "error"
      [] o = "SKIPPED" -> "skipped"

\* TestOutcome(outcome_str)
TestOutcomeOf(v) == CHOOSE o \in TestOutcome : OutcomeValue(o) = v

\* json.dumps of the environment info
EnvInfoJson(e) ==
    [python_version |-> e.python_version, platform |-> e.platform,
     timestamp |-> isoformat(e.timestamp)]

\* json.loads and EnvironmentInfo(...)
EnvInfoOf(j) ==
    [python_version |-> j.python_version, platform |-> j.platform,
     timestamp |-> fromisoformat(j.timestamp)]

\* the row INSERTed for a result (the id column is the row's position)
RowOf(result) ==
    [test_id |-> result.test_id,
     outcome |-> OutcomeValue(result.outcome),
     duration |-> result.duration,
     timestamp |-> isoformat(result.timestamp),
     env_info |-> EnvInfoJson(result.environment_info)]

\* the TestResult built from a fetched row
ResultOf(test_id, row) ==
    [test_id |-> test_id,
     outcome |-> TestOutcomeOf(row.outcome),
     duration |-> row.duration,
     timestamp |-> fromisoformat(row.timestamp),
     environment_info |-> EnvInfoOf(row.env_info)]

\* SQLite's BINARY collation on two ISO-8601 texts: the wall-clock fields
\* decide, then the offset suffix ("+00:00" < "+02:00")
TextLess(a, b) == a.local < b.local \/ (a.local = b.local /\ a.off < b.off)

\* WHERE test_id = ?
RECURSIVE WhereTestId(_, _)
WhereTestId(rows, test_id) ==
    IF rows = <<>> THEN <<>>
    ELSE IF Head(rows).test_id = test_id
         THEN <<Head(rows)>> \o WhereTestId(Tail(rows), test_id)
         ELSE WhereTestId(Tail(rows), test_id)

\* ORDER BY timestamp DESC leaves the order of rows with equal timestamp text
\* to the query plan.  SQLite runs this query in one of two ways:
\*   "temp_btree"     search idx_test_id, then sort: equal texts stay in rowid order
\*   "idx_timestamp"  scan idx_timestamp backwards: equal texts come in reverse rowid order
QueryPlans == {"temp_btree", "idx_timestamp"}

RECURSIVE InsertRowDesc(_, _, _)
InsertRowDesc(x, s, plan) ==
    IF s = <<>> THEN <<x>>
    ELSE IF \/ TextLess(Head(s).timestamp, x.timestamp)
            \/ plan = "idx_timestamp" /\ Head(s).timestamp = x.timestamp
         THEN <<x>> \o s
         ELSE <<Head(s)>> \o InsertRowDesc(x, Tail(s), plan)

\* ORDER BY timestamp DESC
RECURSIVE OrderByTimestampDesc(_, _)
OrderByTimestampDesc(rows, plan) ==
    IF rows = <<>> THEN <<>>
    ELSE InsertRowDesc(rows[Len(rows)], OrderByTimestampDesc(Front(rows), plan), plan)

\* LIMIT ?: a negative limit is no limit
Limit(rows, n) == IF n < 0 THEN rows ELSE FirstN(rows, n)

Reversed(s) == [i \in 1 .. Len(s) |-> s[Len(s) + 1 - i]]

None == [none |-> TRUE]

\* ret before any call
NoCall == [op |-> "none"]

\* no plugin is registered (pytest runs without --flakyguard, or no pytest at all)
NoPlugin == [registered |-> FALSE]

get_history_empty(rows, test_id, window_size, plan) ==
    LET fetched == Limit(OrderByTimestampDesc(WhereTestId(rows, test_id), plan),
                         window_size)
        rev == Reversed(fetched)
    IN  [test_id |-> test_id,
         results |-> [i \in 1 .. Len(rev) |-> ResultOf(test_id, rev[i])]]

\* SQLiteStorage.get_history
get_history(rows, test_id, window_size, plan) ==
    LET fetched == Limit(OrderByTimestampDesc(WhereTestId(rows, test_id), plan),
                         window_size)
        rev == Reversed(fetched)
    IN  IF fetched = <<>> THEN None
        ELSE [test_id |-> test_id,
              results |-> [i \in 1 .. Len(rev) |-> ResultOf(test_id, rev[i])]]

\* SELECT DISTINCT test_id: the ids of the table, in any order
DistinctTestIds(rows) ==
    LET ids == {rows[i].test_id : i \in 1 .. Len(rows)}
    IN  {s \in [1 .. Cardinality(ids) -> ids] :
            \A i, j \in 1 .. Cardinality(ids) : i # j => s[i] # s[j]}

\* SQLiteStorage.get_all_histories, for the ids as fetched and the plan of each
\* get_history query
RECURSIVE get_all_histories(_, _, _, _)
get_all_histories(rows, test_ids, window_size, plans) ==
    IF test_ids = <<>> THEN <<>>
    ELSE LET history == get_history(rows, Head(test_ids), window_size, plans[Head(test_ids)])
             rest == get_all_histories(rows, Tail(test_ids), window_size, plans)
         IN  IF history = None THEN rest ELSE <<history>> \o rest

SchemaVersion == [key |-> "schema_version", value |-> "1"]

\* INSERT OR IGNORE INTO metadata: key is the primary key
InsertOrIgnore(table, row) ==
    IF \E r \in table : r.key = row.key THEN table ELSE table \cup {row}

----------------------------------------------------------------------------
(* Spec: one store, used through the SQLiteStorage methods *)

StoreOutcomes == {"PASSED", "FAILED"}

\* (0,+00:00) and (0,+02:00) are the same instant; (1,+00:00) is later than both
\* and its text sorts between theirs
StoreStamps == {Stamp(0, 0), Stamp(1, 0), Stamp(0, 2)}

StoreResults ==
    {Result(id, o, t) : id \in TestIds, o \in StoreOutcomes, t \in StoreStamps}

StoreWindows == -1 .. MaxRows

\* the state after SQLiteStorage(config) on a fresh path
Init ==
    /\ test_results = <<>>
    /\ metadata = {SchemaVersion}
    /\ appended = <<>>
    /\ histories = <<>>
    /\ ret = NoCall
    /\ conns = <<>>
    /\ plugin = NoPlugin
    /\ items = <<>>
    /\ quarantined = {}

\* the tables are dropped and created anew
InitDatabase_recreate ==
    /\ test_results' = <<>>
    /\ appended' = <<>>
    /\ metadata' = {SchemaVersion}
    /\ ret' = [op |-> "_init_database"]
    /\ UNCHANGED <<histories, conns, plugin, items, quarantined>>

\* constructing another SQLiteStorage on the same path
InitDatabase ==
    /\ metadata' = InsertOrIgnore(metadata, SchemaVersion)
    /\ ret' = [op |-> "_init_database"]
    /\ UNCHANGED <<test_results, appended, histories, conns, plugin, items, quarantined>>

SaveResult ==
    /\ Len(test_results) < MaxRows
    /\ \E result \in StoreResults :
          /\ test_results' = Append(test_results, RowOf(result))
          /\ appended' = Append(appended, result)
    /\ ret' = [op |-> "save_result"]
    /\ UNCHANGED <<metadata, histories, conns, plugin, items, quarantined>>

GetHistory ==
    /\ \E test_id \in TestIds, window_size \in StoreWindows, plan \in QueryPlans :
          ret' = [op |-> "get_history", test_id |-> test_id,
                  window_size |-> window_size,
                  value |-> get_history(test_results, test_id, window_size, plan)]
    /\ UNCHANGED <<test_results, metadata, appended, histories, conns, plugin, items, quarantined>>

GetAllHistories ==
    /\ \E window_size \in StoreWindows, test_ids \in DistinctTestIds(test_results),
          plans \in [TestIds -> QueryPlans] :
          ret' = [op |-> "get_all_histories", window_size |-> window_size,
                  value |-> get_all_histories(test_results, test_ids, window_size, plans)]
    /\ UNCHANGED <<test_results, metadata, appended, histories, conns, plugin, items, quarantined>>

\* DELETE with a WHERE clause: only the oldest row goes
Clear_oldest ==
    /\ test_results' = IF test_results = <<>> THEN <<>> ELSE Tail(test_results)
    /\ appended' = IF appended = <<>> THEN <<>> ELSE Tail(appended)
    /\ ret' = [op |-> "clear"]
    /\ UNCHANGED <<metadata, histories, conns, plugin, items, quarantined>>

\* every table is emptied
Clear_metadata ==
    /\ test_results' = <<>>
    /\ appended' = <<>>
    /\ metadata' = {}
    /\ ret' = [op |-> "clear"]
    /\ UNCHANGED <<histories, conns, plugin, items, quarantined>>

Clear ==
    /\ test_results' = <<>>
    /\ appended' = <<>>
    /\ ret' = [op |-> "clear"]
    /\ UNCHANGED <<metadata, histories, conns, plugin, items, quarantined>>

Close ==
    /\ ret' = [op |-> "close"]
    /\ UNCHANGED <<test_results, metadata, appended, histories, conns, plugin, items, quarantined>>

Next ==
    \/ InitDatabase
    \/ SaveResult
    \/ GetHistory
    \/ GetAllHistories
    \/ Clear
    \/ Close

Spec == Init /\ [][Next]_vars

----------------------------------------------------------------------------
(* Properties of the store (checked under Spec) *)

\* the results written for a test id since the store was last empty, in write order
RECURSIVE AppendedFor(_, _)
AppendedFor(written, test_id) ==
    IF written = <<>> THEN <<>>
    ELSE IF Head(written).test_id = test_id
         THEN <<Head(written)>> \o AppendedFor(Tail(written), test_id)
         ELSE AppendedFor(Tail(written), test_id)

RECURSIVE WithTimestamp(_, _)
WithTimestamp(results, t) ==
    IF results = <<>> THEN <<>>
    ELSE IF Head(results).timestamp = t
         THEN <<Head(results)>> \o WithTimestamp(Tail(results), t)
         ELSE WithTimestamp(Tail(results), t)

Occurrences(results, r) == Cardinality({i \in 1 .. Len(results) : results[i] = r})

LaterThan(results, u) == Cardinality({i \in 1 .. Len(results) : results[i].timestamp.utc > u})

AscendingByInstant(results) ==
    \A i \in 1 .. Len(results) - 1 :
        results[i].timestamp.utc <= results[i + 1].timestamp.utc

Instants == {t.utc : t \in StoreStamps}

\* C3: for w >= 1 and a test id with n stored results, GetHistory returns the
\* min(w, n) chronologically most recent results of that id, ascending by the
\* instant of execution, also when the stored timestamps carry different UTC
\* offsets.
C3_MostRecentByInstant ==
    (ret.op = "get_history" /\ ret.window_size >= 1) =>
        LET written == AppendedFor(appended, ret.test_id)
            k == Min(ret.window_size, Len(written))
        IN  Len(written) >= 1 =>
                /\ ret.value # None
                /\ Len(ret.value.results) = k
                /\ \A i \in 1 .. k : Occurrences(written, ret.value.results[i]) > 0
                /\ \A u \in Instants :
                      LaterThan(ret.value.results, u) = Min(k, LaterThan(written, u))
                /\ AscendingByInstant(ret.value.results)

\* C4: stored results of one test id with equal timestamps are returned in the
\* order they were written, and a window that cuts through them keeps the ones
\* written last.
C4_TiesInInsertionOrder ==
    (ret.op = "get_history" /\ ret.window_size >= 1 /\ ret.value # None) =>
        \A t \in StoreStamps :
            LET written == WithTimestamp(AppendedFor(appended, ret.test_id), t)
                got == WithTimestamp(ret.value.results, t)
            IN  got = LastN(written, Len(got))

\* C10: after N results of a test id were appended to an empty store,
\* GetHistory with a window >= N returns exactly those N results, with equal
\* fields, in ascending chronological order.
C10_RoundTrip ==
    LET written == AppendedFor(appended, ret.test_id)
    IN  (/\ ret.op = "get_history"
         /\ Len(written) >= 1
         /\ ret.window_size >= Len(written)) =>
            /\ ret.value # None
            /\ ret.value.test_id = ret.test_id
            /\ Len(ret.value.results) = Len(written)
            /\ \A r \in StoreResults :
                  Occurrences(ret.value.results, r) = Occurrences(written, r)
            /\ AscendingByInstant(ret.value.results)

StoredTestIds == {test_results[i].test_id : i \in 1 .. Len(test_results)}

\* C11: for a test id with stored results, GetHistory with windowSize <= 0
\* (0 as well as any negative value) returns the whole stored history of the id.
C11_NonPositiveWindowIsWholeHistory ==
    LET written == AppendedFor(appended, ret.test_id)
    IN  (/\ ret.op = "get_history"
         /\ ret.window_size <= 0
         /\ Len(written) >= 1) =>
            /\ ret.value # None
            /\ Len(ret.value.results) = Len(written)
            /\ \A r \in StoreResults :
                  Occurrences(ret.value.results, r) = Occurrences(written, r)

\* C12: GetHistory returns absent when no result is stored for the test id,
\* and never returns a history whose result sequence is empty.
C12_AbsentNeverEmpty ==
    ret.op = "get_history" =>
        /\ ret.test_id \notin StoredTestIds => ret.value = None
        /\ ret.value # None => Len(ret.value.results) >= 1

\* an id without results is asked for while the other id has some
C12_Witness ==
    /\ ret.op = "get_history"
    /\ ret.window_size >= 1
    /\ ret.test_id \notin StoredTestIds
    /\ StoredTestIds # {}
    /\ ret.value = None

\* C13: GetAllHistories(w) returns exactly one history per distinct stored test
\* id, none missing and none twice; each is what GetHistory(id, w) returns and
\* holds only results of its id.
C13_OneHistoryPerTestId ==
    ret.op = "get_all_histories" =>
        /\ {ret.value[k].test_id : k \in 1 .. Len(ret.value)} = StoredTestIds
        /\ Len(ret.value) = Cardinality(StoredTestIds)
        /\ \A k \in 1 .. Len(ret.value) :
              /\ \E plan \in QueryPlans :
                    ret.value[k] = get_history(test_results, ret.value[k].test_id,
                                               ret.window_size, plan)
              /\ \A i \in 1 .. Len(ret.value[k].results) :
                    ret.value[k].results[i].test_id = ret.value[k].test_id

\* C14: after Clear, GetAllHistories returns the empty list and GetHistory
\* returns absent for every test id; this holds after every Clear, also one on
\* an already empty store or one that follows another Clear.
C14_ClearEmptiesStore ==
    ret.op = "clear" =>
        /\ test_results = <<>>
        /\ \A test_id \in TestIds, w \in StoreWindows, plan \in QueryPlans :
              get_history(test_results, test_id, w, plan) = None
        /\ \A w \in StoreWindows, ids \in DistinctTestIds(test_results),
              plans \in [TestIds -> QueryPlans] :
              get_all_histories(test_results, ids, w, plans) = <<>>

\* Clear has run
C14_Witness ==
    /\ ret.op = "clear"
    /\ test_results = <<>>
    /\ appended = <<>>

\* C15: the store is append-only: AppendResult adds exactly one record and
\* changes no other, and no operation but Clear removes or alters a record.
C15_AppendOnly ==
    [][/\ ret'.op = "save_result" =>
              /\ Len(test_results') = Len(test_results) + 1
              /\ SubSeq(test_results', 1, Len(test_results)) = test_results
       /\ ret'.op \notin {"save_result", "clear"} => test_results' = test_results]_vars

\* an append onto two earlier records
C15_Witness ==
    /\ ret.op = "save_result"
    /\ Len(test_results) = 3
    /\ test_results[1] # test_results[3]

\* C18: Initialize is idempotent: it never removes or alters stored results,
\* and the metadata always holds exactly one schema-version marker, with its
\* original value, whatever appends and Clears are interleaved.
C18_InitializeIdempotent ==
    /\ [](/\ Cardinality({r \in metadata : r.key = "schema_version"}) = 1
          /\ SchemaVersion \in metadata)
    /\ [][ret'.op = "_init_database" =>
              (test_results' = test_results /\ metadata' = metadata)]_vars

\* the store is opened again while it holds results
C18_Witness ==
    /\ ret.op = "_init_database"
    /\ Len(test_results) >= 1
    /\ metadata = {SchemaVersion}

----------------------------------------------------------------------------
(* SpecConcurrent: save_result and get_history calls of several processes on
   one database file.  Every call opens its own connection (sqlite3.connect in
   the call); the file is in SQLite's default rollback-journal mode, so a
   connection holds one of the file locks UNLOCKED, SHARED, RESERVED,
   EXCLUSIVE, and a lock not granted within the connection's timeout raises
   sqlite3.OperationalError ("database is locked"). *)

Workers == {"w1", "w2"}

Readers == {"r1"}

ConcResults == {Result(id, o, Stamp(0, 0)) : id \in TestIds, o \in StoreOutcomes}

ConcWindows == {1, MaxRows}

OperationalError == [raised |-> "OperationalError"]

\* a process with no call made yet: no connection
Closed == [lock |-> "UNLOCKED", done |-> "no", result |-> None, cache |-> <<>>]

\* the row as it stands in the file while its page is being written: the
\* last column is not there yet
PartialRow(row) ==
    [row EXCEPT !.env_info = [python_version |-> "", platform |-> "",
                              timestamp |-> [local |-> 0, off |-> 0]]]

Holders(locks) == {p \in DOMAIN conns : conns[p].lock \in locks}

InitConcurrent ==
    /\ test_results = <<>>
    /\ metadata = {SchemaVersion}
    /\ appended = <<>>
    /\ histories = <<>>
    /\ ret = NoCall
    /\ conns = [p \in Workers \cup Readers |-> Closed]
    /\ plugin = NoPlugin
    /\ items = <<>>
    /\ quarantined = {}

\* the INSERT is run without taking the RESERVED lock
SaveResultExecute_nolock ==
    \E w \in Workers, result \in ConcResults :
        /\ conns[w] = Closed
        /\ conns' = [conns EXCEPT ![w] =
                        [lock |-> "RESERVED", done |-> "no", result |-> result,
                         cache |-> Append(test_results, RowOf(result))]]
        /\ UNCHANGED <<test_results, metadata, appended, histories, ret, plugin, items, quarantined>>

\* conn.execute(INSERT ...): the connection takes the RESERVED lock, which one
\* connection at a time can hold, and adds the row to its page cache
SaveResultExecute ==
    \E w \in Workers, result \in ConcResults :
        /\ conns[w] = Closed
        /\ Holders({"RESERVED", "EXCLUSIVE"}) = {}
        /\ conns' = [conns EXCEPT ![w] =
                        [lock |-> "RESERVED", done |-> "no", result |-> result,
                         cache |-> Append(test_results, RowOf(result))]]
        /\ UNCHANGED <<test_results, metadata, appended, histories, ret, plugin, items, quarantined>>

\* conn.execute(INSERT ...) while another connection writes: the lock is not
\* granted in time and save_result raises
SaveResultExecuteLocked ==
    \E w \in Workers, result \in ConcResults :
        /\ conns[w] = Closed
        /\ Holders({"RESERVED", "EXCLUSIVE"}) # {}
        /\ conns' = [conns EXCEPT ![w] =
                        [lock |-> "UNLOCKED", done |-> "raised", result |-> result,
                         cache |-> <<>>]]
        /\ UNCHANGED <<test_results, metadata, appended, histories, ret, plugin, items, quarantined>>

\* conn.commit(), first half: with no reader on the file the connection takes
\* the EXCLUSIVE lock and starts to write its cache to the file
SaveResultCommit ==
    \E w \in Workers :
        /\ conns[w].lock = "RESERVED"
        /\ Holders({"SHARED", "EXCLUSIVE"}) = {}
        /\ test_results' = Append(Front(conns[w].cache),
                                  PartialRow(conns[w].cache[Len(conns[w].cache)]))
        /\ conns' = [conns EXCEPT ![w].lock = "EXCLUSIVE"]
        /\ UNCHANGED <<metadata, appended, histories, ret, plugin, items, quarantined>>

\* conn.commit() while a reader keeps its SHARED lock: commit raises and the
\* connection's context manager rolls the transaction back
SaveResultCommitLocked ==
    \E w \in Workers :
        /\ conns[w].lock = "RESERVED"
        /\ Holders({"SHARED"}) # {}
        /\ conns' = [conns EXCEPT ![w].lock = "UNLOCKED", ![w].done = "raised"]
        /\ UNCHANGED <<test_results, metadata, appended, histories, ret, plugin, items, quarantined>>

\* conn.commit(), second half: the file holds the cache, the lock is
\* released and save_result returns
SaveResultCommitted ==
    \E w \in Workers :
        /\ conns[w].lock = "EXCLUSIVE"
        /\ test_results' = conns[w].cache
        /\ appended' = Append(appended, conns[w].result)
        /\ conns' = [conns EXCEPT ![w].lock = "UNLOCKED", ![w].done = "returned"]
        /\ UNCHANGED <<metadata, histories, ret, plugin, items, quarantined>>

\* conn.commit() fails while writing (disk full, I/O error): SQLite restores
\* the file from the rollback journal and save_result raises
SaveResultRollback ==
    \E w \in Workers :
        /\ conns[w].lock = "EXCLUSIVE"
        /\ test_results' = Front(conns[w].cache)
        /\ conns' = [conns EXCEPT ![w].lock = "UNLOCKED", ![w].done = "raised"]
        /\ UNCHANGED <<metadata, appended, histories, ret, plugin, items, quarantined>>

\* the SELECT reads the file without waiting for a writer's EXCLUSIVE lock
GetHistoryExecute_nolock ==
    \E r \in Readers :
        /\ conns[r].lock = "UNLOCKED"
        /\ conns' = [conns EXCEPT ![r].lock = "SHARED"]
        /\ UNCHANGED <<test_results, metadata, appended, histories, ret, plugin, items, quarantined>>

\* conn.execute(SELECT ...): the connection takes a SHARED lock, which is
\* granted unless a writer holds the EXCLUSIVE lock
GetHistoryExecute ==
    \E r \in Readers :
        /\ conns[r].lock = "UNLOCKED"
        /\ Holders({"EXCLUSIVE"}) = {}
        /\ conns' = [conns EXCEPT ![r].lock = "SHARED"]
        /\ UNCHANGED <<test_results, metadata, appended, histories, ret, plugin, items, quarantined>>

\* conn.execute(SELECT ...) while a writer holds the EXCLUSIVE lock for
\* longer than the timeout: get_history raises
GetHistoryExecuteLocked ==
    \E r \in Readers, test_id \in TestIds, window_size \in ConcWindows :
        /\ conns[r].lock = "UNLOCKED"
        /\ Holders({"EXCLUSIVE"}) # {}
        /\ ret' = [op |-> "get_history", test_id |-> test_id,
                   window_size |-> window_size, value |-> OperationalError]
        /\ UNCHANGED <<test_results, metadata, appended, histories, conns, plugin, items, quarantined>>

\* cursor.fetchall() and the rest of get_history: the rows are read from the
\* file, the lock is released
GetHistoryFetchall ==
    \E r \in Readers, test_id \in TestIds, window_size \in ConcWindows,
       plan \in QueryPlans :
        /\ conns[r].lock = "SHARED"
        /\ ret' = [op |-> "get_history", test_id |-> test_id,
                   window_size |-> window_size,
                   value |-> get_history(test_results, test_id, window_size, plan)]
        /\ conns' = [conns EXCEPT ![r].lock = "UNLOCKED"]
        /\ UNCHANGED <<test_results, metadata, appended, histories, plugin, items, quarantined>>

NextConcurrent ==
    \/ SaveResultExecute
    \/ SaveResultExecuteLocked
    \/ SaveResultCommit
    \/ SaveResultCommitLocked
    \/ SaveResultCommitted
    \/ SaveResultRollback
    \/ GetHistoryExecute
    \/ GetHistoryExecuteLocked
    \/ GetHistoryFetchall

SpecConcurrent == InitConcurrent /\ [][NextConcurrent]_vars

(* Properties of SpecConcurrent *)

Returned == {w \in Workers : conns[w].done = "returned"}

\* C16: once every concurrent save_result call has returned or raised, the
\* table holds exactly one unaltered row per call that returned without error:
\* as many rows as such calls, and each row as often as it was saved.
C16_NoLostWrite ==
    (\A w \in Workers : conns[w].done # "no") =>
        /\ Len(test_results) = Cardinality(Returned)
        /\ \A r \in ConcResults :
              Occurrences(test_results, RowOf(r))
                  = Cardinality({w \in Returned : conns[w].result = r})

\* both workers' appends returned without error
C16_Witness ==
    /\ Returned = Workers
    /\ Len(test_results) = 2

\* C17: save_result is all-or-nothing: every result a get_history call returns
\* is the complete result of a save_result call that has committed, and a
\* save_result call that raises leaves the table as it was when the call ran
\* its INSERT.
C17_AllOrNothing ==
    /\ []((/\ ret.op = "get_history"
            /\ ret.value # None
            /\ ret.value # OperationalError) =>
              \A i \in 1 .. Len(ret.value.results) :
                  \E w \in Returned : ret.value.results[i] = conns[w].result)
    /\ [][\A w \in Workers :
             (conns[w].done = "no" /\ conns'[w].done = "raised") =>
                 test_results' = IF conns[w].lock = "UNLOCKED" THEN test_results
                                 ELSE Front(conns[w].cache)]_vars

\* a read has returned a committed result after another append failed in its
\* commit
C17_Witness ==
    /\ ret.op = "get_history"
    /\ ret.value # None
    /\ ret.value # OperationalError
    /\ \E w \in Workers : conns[w].done = "raised" /\ conns[w].cache # <<>>

----------------------------------------------------------------------------
(* SpecRace: the calls of SpecConcurrent together with one get_all_histories
   call and one clear call of further processes.  get_all_histories reads the
   ids on one connection and then calls get_history, which opens a connection
   of its own, once per id. *)

AllReaders == {"g1"}

Clearers == {"c1"}

InitRace ==
    /\ test_results = <<>>
    /\ metadata = {SchemaVersion}
    /\ appended = <<>>
    /\ histories = <<>>
    /\ ret = NoCall
    /\ conns = [p \in Workers \cup Readers \cup AllReaders \cup Clearers |-> Closed]
    /\ plugin = NoPlugin
    /\ items = <<>>
    /\ quarantined = {}

\* cursor.execute(SELECT DISTINCT test_id ...): the connection takes a SHARED lock
GetAllHistoriesExecute ==
    \E g \in AllReaders, window_size \in ConcWindows :
        /\ conns[g] = Closed
        /\ Holders({"EXCLUSIVE"}) = {}
        /\ conns' = [conns EXCEPT ![g] =
                        [lock |-> "SHARED", done |-> "no", window_size |-> window_size,
                         test_ids |-> <<>>, next |-> 0, histories |-> <<>>]]
        /\ UNCHANGED <<test_results, metadata, appended, histories, ret, plugin, items, quarantined>>

\* the SELECT DISTINCT while a writer holds the EXCLUSIVE lock for longer
\* than the timeout: get_all_histories raises
GetAllHistoriesExecuteLocked ==
    \E g \in AllReaders, window_size \in ConcWindows :
        /\ conns[g] = Closed
        /\ Holders({"EXCLUSIVE"}) # {}
        /\ conns' = [conns EXCEPT ![g] =
                        [lock |-> "UNLOCKED", done |-> "raised", window_size |-> window_size,
                         test_ids |-> <<>>, next |-> 0, histories |-> <<>>]]
        /\ ret' = [op |-> "get_all_histories", window_size |-> window_size,
                   raised |-> TRUE, value |-> <<>>]
        /\ UNCHANGED <<test_results, metadata, appended, histories, plugin, items, quarantined>>

\* test_ids = [row[0] for row in cursor.fetchall()]; the lock is released
GetAllHistoriesFetchIds ==
    \E g \in AllReaders, test_ids \in DistinctTestIds(test_results) :
        /\ conns[g].lock = "SHARED"
        /\ conns[g].next = 0
        /\ conns' = [conns EXCEPT ![g].lock = "UNLOCKED", ![g].test_ids = test_ids,
                                  ![g].next = 1]
        /\ UNCHANGED <<test_results, metadata, appended, histories, ret, plugin, items, quarantined>>

\* self.get_history(test_id, window_size): its SELECT takes a SHARED lock
GetAllHistoriesGetHistory ==
    \E g \in AllReaders :
        /\ conns[g] # Closed
        /\ conns[g].done = "no"
        /\ conns[g].lock = "UNLOCKED"
        /\ conns[g].next \in 1 .. Len(conns[g].test_ids)
        /\ Holders({"EXCLUSIVE"}) = {}
        /\ conns' = [conns EXCEPT ![g].lock = "SHARED"]
        /\ UNCHANGED <<test_results, metadata, appended, histories, ret, plugin, items, quarantined>>

\* self.get_history(test_id, window_size) raises on a lock held too long, and
\* so does get_all_histories
GetAllHistoriesGetHistoryLocked ==
    \E g \in AllReaders :
        /\ conns[g] # Closed
        /\ conns[g].done = "no"
        /\ conns[g].lock = "UNLOCKED"
        /\ conns[g].next \in 1 .. Len(conns[g].test_ids)
        /\ Holders({"EXCLUSIVE"}) # {}
        /\ conns' = [conns EXCEPT ![g].done = "raised"]
        /\ ret' = [op |-> "get_all_histories", window_size |-> conns[g].window_size,
                   raised |-> TRUE, value |-> <<>>]
        /\ UNCHANGED <<test_results, metadata, appended, histories, plugin, items, quarantined>>

\* the history is appended whether or not there is one
GetAllHistoriesAppend_unchecked ==
    \E g \in AllReaders, plan \in QueryPlans :
        /\ conns[g].lock = "SHARED"
        /\ conns[g].next \in 1 .. Len(conns[g].test_ids)
        /\ LET history == get_history(test_results, conns[g].test_ids[conns[g].next],
                                      conns[g].window_size, plan)
           IN  conns' = [conns EXCEPT
                            ![g].lock = "UNLOCKED",
                            ![g].next = @ + 1,
                            ![g].histories = Append(@, history)]
        /\ UNCHANGED <<test_results, metadata, appended, histories, ret, plugin, items, quarantined>>

\* the rest of get_history and "if history: histories.append(history)"
GetAllHistoriesAppend ==
    \E g \in AllReaders, plan \in QueryPlans :
        /\ conns[g].lock = "SHARED"
        /\ conns[g].next \in 1 .. Len(conns[g].test_ids)
        /\ LET history == get_history(test_results, conns[g].test_ids[conns[g].next],
                                      conns[g].window_size, plan)
           IN  conns' = [conns EXCEPT
                            ![g].lock = "UNLOCKED",
                            ![g].next = @ + 1,
                            ![g].histories = IF history = None THEN @ ELSE Append(@, history)]
        /\ UNCHANGED <<test_results, metadata, appended, histories, ret, plugin, items, quarantined>>

\* return histories
GetAllHistoriesReturn ==
    \E g \in AllReaders :
        /\ conns[g] # Closed
        /\ conns[g].done = "no"
        /\ conns[g].lock = "UNLOCKED"
        /\ conns[g].next = Len(conns[g].test_ids) + 1
        /\ conns' = [conns EXCEPT ![g].done = "returned"]
        /\ ret' = [op |-> "get_all_histories", window_size |-> conns[g].window_size,
                   raised |-> FALSE, value |-> conns[g].histories]
        /\ UNCHANGED <<test_results, metadata, appended, histories, plugin, items, quarantined>>

\* cursor.execute(DELETE FROM test_results): the connection takes the RESERVED
\* lock; the file as it stands goes to the rollback journal
ClearExecute ==
    \E c \in Clearers :
        /\ conns[c] = Closed
        /\ Holders({"RESERVED", "EXCLUSIVE"}) = {}
        /\ conns' = [conns EXCEPT ![c] =
                        [lock |-> "RESERVED", done |-> "no", journal |-> test_results]]
        /\ UNCHANGED <<test_results, metadata, appended, histories, ret, plugin, items, quarantined>>

\* the DELETE while another connection writes: clear raises
ClearExecuteLocked ==
    \E c \in Clearers :
        /\ conns[c] = Closed
        /\ Holders({"RESERVED", "EXCLUSIVE"}) # {}
        /\ conns' = [conns EXCEPT ![c] =
                        [lock |-> "UNLOCKED", done |-> "raised", journal |-> <<>>]]
        /\ UNCHANGED <<test_results, metadata, appended, histories, ret, plugin, items, quarantined>>

\* conn.commit(), first half: the EXCLUSIVE lock is taken and the rows start
\* to go from the file
ClearCommit ==
    \E c \in Clearers :
        /\ conns[c].lock = "RESERVED"
        /\ Holders({"SHARED", "EXCLUSIVE"}) = {}
        /\ test_results' = IF test_results = <<>> THEN <<>> ELSE Tail(test_results)
        /\ conns' = [conns EXCEPT ![c].lock = "EXCLUSIVE"]
        /\ UNCHANGED <<metadata, appended, histories, ret, plugin, items, quarantined>>

\* conn.commit() while a reader keeps its SHARED lock: clear raises and the
\* transaction is rolled back
ClearCommitLocked ==
    \E c \in Clearers :
        /\ conns[c].lock = "RESERVED"
        /\ Holders({"SHARED"}) # {}
        /\ conns' = [conns EXCEPT ![c].lock = "UNLOCKED", ![c].done = "raised"]
        /\ UNCHANGED <<test_results, metadata, appended, histories, ret, plugin, items, quarantined>>

\* conn.commit(), second half: the table is empty, the lock is released
ClearCommitted ==
    \E c \in Clearers :
        /\ conns[c].lock = "EXCLUSIVE"
        /\ test_results' = <<>>
        /\ appended' = <<>>
        /\ conns' = [conns EXCEPT ![c].lock = "UNLOCKED", ![c].done = "returned"]
        /\ UNCHANGED <<metadata, histories, ret, plugin, items, quarantined>>

\* conn.commit() fails while writing: the file is restored from the journal
ClearRollback ==
    \E c \in Clearers :
        /\ conns[c].lock = "EXCLUSIVE"
        /\ test_results' = conns[c].journal
        /\ conns' = [conns EXCEPT ![c].lock = "UNLOCKED", ![c].done = "raised"]
        /\ UNCHANGED <<metadata, appended, histories, ret, plugin, items, quarantined>>

NextRace ==
    \/ NextConcurrent
    \/ GetAllHistoriesExecute
    \/ GetAllHistoriesExecuteLocked
    \/ GetAllHistoriesFetchIds
    \/ GetAllHistoriesGetHistory
    \/ GetAllHistoriesGetHistoryLocked
    \/ GetAllHistoriesAppend
    \/ GetAllHistoriesReturn
    \/ ClearExecute
    \/ ClearExecuteLocked
    \/ ClearCommit
    \/ ClearCommitLocked
    \/ ClearCommitted
    \/ ClearRollback

SpecRace == InitRace /\ [][NextRace]_vars

(* Properties of SpecRace *)

\* C28 (as stated): a get_all_histories call that races with appends and a
\* clear always completes without error, and every history it returns has at
\* least one result.
C28_CompletesNonEmpty ==
    ret.op = "get_all_histories" =>
        /\ ~ret.raised
        /\ \A k \in 1 .. Len(ret.value) :
              ret.value[k] # None /\ Len(ret.value[k].results) >= 1

\* C28 (amended): a get_all_histories call that races with appends and a clear
\* raises only when a writer holds the file's EXCLUSIVE lock at one of its
\* queries; when it completes, every history it returns has at least one
\* result and belongs to a different one of the ids it read, an id whose
\* results vanished being left out.
C28_NonEmptyUnlessLocked ==
    /\ [](ret.op = "get_all_histories" =>
            /\ \A k \in 1 .. Len(ret.value) :
                  ret.value[k] # None /\ Len(ret.value[k].results) >= 1
            /\ \A g \in AllReaders :
                  (conns[g].done = "returned") =>
                      /\ Len(ret.value) <= Len(conns[g].test_ids)
                      /\ \A k \in 1 .. Len(ret.value) :
                            \E i \in 1 .. Len(conns[g].test_ids) :
                                conns[g].test_ids[i] = ret.value[k].test_id
                      /\ \A k, l \in 1 .. Len(ret.value) :
                            k # l => ret.value[k].test_id # ret.value[l].test_id)
    /\ [][\A g \in AllReaders :
             (conns[g].done = "no" /\ conns'[g].done = "raised") =>
                 Holders({"EXCLUSIVE"}) # {}]_vars

\* the call read an id, the id's rows were cleared, and the call returned
\* without it
C28_Witness ==
    /\ ret.op = "get_all_histories"
    /\ ~ret.raised
    /\ \E g \in AllReaders :
          /\ conns[g].done = "returned"
          /\ Len(ret.value) < Len(conns[g].test_ids)

----------------------------------------------------------------------------
(* plugin.py: the hooks of FlakyGuardPlugin *)

\* report.outcome as pytest and its plugins set it
ReportOutcomes == {"passed", "failed", "skipped", "rerun"}

\* stored as SKIPPED whatever the report says
outcome_map_get_skipped(outcome) == "SKIPPED"

\* outcome_map.get(report.outcome, TestOutcome.ERROR)
outcome_map_get(outcome) ==
    CASE outcome = "passed" -> "PASSED"
      [] outcome = "failed" -> "FAILED"
      [] outcome = "skipped" -> "SKIPPED"
      [] OTHER -> "ERROR"

\* getattr(report, "duration", 0.0)
getattr_duration(report) == IF "duration" \in DOMAIN report THEN report.duration ELSE 0

\* datetime.now(timezone.utc): a reading later than that of every stored row
now(rows) == Stamp(Len(rows) + 1, 0)

\* the TestResult built for a call-phase report
ReportResult(nodeid, report, t) ==
    [test_id |-> nodeid,
     outcome |-> outcome_map_get(report.outcome),
     duration |-> getattr_duration(report),
     timestamp |-> t,
     environment_info |-> Env(t)]

\* a result is saved for the report of every phase
makereport_every_phase(rows, nodeid, report) ==
    Append(rows, RowOf(ReportResult(nodeid, report, now(rows))))

\* pytest_runtest_makereport after the yield: the table after the hook
makereport(rows, nodeid, report) ==
    IF report.when # "call" THEN rows
    ELSE Append(rows, RowOf(ReportResult(nodeid, report, now(rows))))

\* a collected item, before any hook has touched it
Item(nodeid) == [nodeid |-> nodeid, own_markers |-> <<>>, reports |-> <<>>, saved |-> 0]

\* FlakyGuardPlugin(storage, config)
FlakyGuardPlugin(config) == [registered |-> TRUE, config |-> config, flaky_tests_map |-> <<>>]

----------------------------------------------------------------------------
(* SpecReport: pytest runs the collected tests one after the other and hands
   the report of each phase to pytest_runtest_makereport: setup, then call if
   the setup passed, then teardown. *)

MaxReportRows == 2

Reports ==
    {[when |-> w, outcome |-> o] : w \in {"setup", "call", "teardown"}, o \in ReportOutcomes}
        \cup {[when |-> w, outcome |-> o, duration |-> 2] :
                 w \in {"setup", "call", "teardown"}, o \in ReportOutcomes}

\* the phases of one run of a test are over
Finished(item) ==
    item.reports # <<>> /\ item.reports[Len(item.reports)] = "teardown"

\* the report pytest's runtestprotocol produces next for an item
Produces(item, report) ==
    CASE item.reports = <<>> \/ Finished(item) -> report.when = "setup"
      [] item.reports = <<"setup">> -> report.when \in {"call", "teardown"}
      [] item.reports = <<"setup", "failed">> -> report.when = "teardown"
      [] OTHER -> report.when = "teardown"

InitReport ==
    /\ test_results = <<>>
    /\ metadata = {SchemaVersion}
    /\ appended = <<>>
    /\ histories = <<>>
    /\ ret = NoCall
    /\ conns = <<>>
    /\ plugin = FlakyGuardPlugin(Config(MaxRows, Rate(0, 1), "WARN"))
    /\ items = [id \in TestIds |-> Item(id)]
    /\ quarantined = {}

RuntestMakereport ==
    \E id \in TestIds, report \in Reports :
        /\ \A other \in TestIds \ {id} :
              items[other].reports = <<>> \/ Finished(items[other])
        /\ Produces(items[id], report)
        /\ report.when = "call" => Len(test_results) < MaxReportRows
        /\ test_results' = makereport(test_results, id, report)
        /\ appended' = IF Len(test_results') > Len(test_results)
                       THEN Append(appended, ReportResult(id, report, now(test_results)))
                       ELSE appended
        /\ items' = [items EXCEPT
                        ![id].reports =
                            IF report.when = "setup"
                            THEN IF report.outcome = "passed" THEN <<"setup">>
                                 ELSE <<"setup", "failed">>
                            ELSE Append(@, report.when),
                        ![id].saved =
                            (IF report.when = "setup" THEN 0 ELSE @)
                                + Len(test_results') - Len(test_results)]
        /\ ret' = [op |-> "pytest_runtest_makereport", nodeid |-> id, report |-> report]
        /\ UNCHANGED <<metadata, histories, conns, plugin, quarantined>>

NextReport == RuntestMakereport

SpecReport == InitReport /\ [][NextReport]_vars

(* Properties of SpecReport *)

Calls(item) == Cardinality({i \in 1 .. Len(item.reports) : item.reports[i] = "call"})

\* C23: for a test that pytest runs, exactly one result is saved across its
\* setup, call and teardown reports: the hook appends one row when the
\* call-phase report arrives, with the item's id and the report's outcome and
\* duration, and appends nothing for the reports of the other phases.
C23_OneResultPerCall ==
    /\ [](\A id \in TestIds :
            /\ items[id].saved = Calls(items[id])
            /\ (Finished(items[id]) /\ Calls(items[id]) > 0) => items[id].saved = 1)
    /\ [][(ret'.op = "pytest_runtest_makereport" /\ items' # items) =>
              IF ret'.report.when = "call"
              THEN /\ Len(test_results') = Len(test_results) + 1
                   /\ SubSeq(test_results', 1, Len(test_results)) = test_results
                   /\ LET row == test_results'[Len(test_results')]
                      IN  /\ row.test_id = ret'.nodeid
                          /\ ret'.report.outcome \in {"passed", "failed", "skipped"} =>
                                 row.outcome = ret'.report.outcome
                          /\ "duration" \in DOMAIN ret'.report =>
                                 row.duration = ret'.report.duration
              ELSE test_results' = test_results]_vars

\* a test has gone through setup, call and teardown
C23_Witness ==
    \E id \in TestIds :
        /\ items[id].reports = <<"setup", "call", "teardown">>
        /\ items[id].saved = 1
        /\ ret.op = "pytest_runtest_makereport"
        /\ ret.nodeid = id
        /\ ret.report.when = "teardown"

\* C26: the outcome stored for a call-phase report depends on the report's
\* outcome string alone: PASSED for "passed", FAILED for "failed", SKIPPED for
\* "skipped" and ERROR for every other string; every stored outcome is one of
\* the four members of TestOutcome.
C26_OutcomeFromString ==
    /\ \A i \in 1 .. Len(test_results) :
          \E o \in TestOutcome : test_results[i].outcome = OutcomeValue(o)
    /\ (ret.op = "pytest_runtest_makereport" /\ ret.report.when = "call") =>
          LET stored == TestOutcomeOf(test_results[Len(test_results)].outcome)
          IN  /\ ret.report.outcome = "passed" => stored = "PASSED"
              /\ ret.report.outcome = "failed" => stored = "FAILED"
              /\ ret.report.outcome = "skipped" => stored = "SKIPPED"
              /\ ret.report.outcome \notin {"passed", "failed", "skipped"} => stored = "ERROR"

\* a call-phase report with an outcome string outside the map
C26_Witness ==
    /\ ret.op = "pytest_runtest_makereport"
    /\ ret.report.when = "call"
    /\ ret.report.outcome = "rerun"
    /\ test_results[Len(test_results)].outcome = "error"

----------------------------------------------------------------------------
(* SpecModels: the methods of one TestHistory *)

InitModels ==
    /\ test_results = <<>>
    /\ metadata = {}
    /\ appended = <<>>
    /\ \E os \in SeqsUpTo(TestOutcome, MaxResults) : histories = <<MakeHistory("a", os)>>
    /\ ret = NoCall
    /\ conns = <<>>
    /\ plugin = NoPlugin
    /\ items = <<>>
    /\ quarantined = {}

CallRecentResults ==
    /\ \E w \in Windows :
          ret' = [op |-> "recent_results", window_size |-> w,
                  value |-> recent_results(histories[1], w)]
    /\ UNCHANGED <<test_results, metadata, appended, histories, conns, plugin, items, quarantined>>

CallFlakinessRate ==
    /\ \E w \in Windows :
          ret' = [op |-> "flakiness_rate", window_size |-> w,
                  value |-> flakiness_rate(histories[1], w)]
    /\ UNCHANGED <<test_results, metadata, appended, histories, conns, plugin, items, quarantined>>

CallIsFlaky ==
    /\ \E w \in Windows, t \in Thresholds :
          ret' = [op |-> "is_flaky", window_size |-> w, threshold |-> t,
                  value |-> is_flaky(histories[1], w, t)]
    /\ UNCHANGED <<test_results, metadata, appended, histories, conns, plugin, items, quarantined>>

NextModels == CallRecentResults \/ CallFlakinessRate \/ CallIsFlaky

SpecModels == InitModels /\ [][NextModels]_vars

----------------------------------------------------------------------------
(* Properties of the TestHistory methods (checked under SpecModels) *)

\* the detection window as the specification words it: the last
\* min(windowSize, len) results, or everything when windowSize <= 0
WindowOf(results, w) ==
    IF w >= 1
    THEN [i \in 1 .. Min(w, Len(results)) |->
             results[Len(results) - Min(w, Len(results)) + i]]
    ELSE results

NoPassedIn(win) == \A i \in 1 .. Len(win) : win[i].outcome # "PASSED"

NoFailureIn(win) == \A i \in 1 .. Len(win) : win[i].outcome \notin {"FAILED", "ERROR"}

FailuresIn(win) == Cardinality({i \in 1 .. Len(win) : win[i].outcome \in {"FAILED", "ERROR"}})

\* C1: a history whose window holds no Passed result, or holds no Failed/Error
\* result, is never classified flaky, whatever the window size and threshold
\* (threshold 0 included); Skipped results are evidence of neither kind.
C1_NotFlakyWithoutBothKinds ==
    ret.op = "is_flaky" =>
        LET win == WindowOf(histories[1].results, ret.window_size)
        IN  (NoPassedIn(win) \/ NoFailureIn(win)) => ret.value = FALSE

\* an all-Failed/Error window of two or more results (rate 1.0), threshold 0
C1_Witness ==
    /\ ret.op = "is_flaky"
    /\ ret.threshold = Rate(0, 1)
    /\ LET win == WindowOf(histories[1].results, ret.window_size)
       IN  /\ Len(win) >= 2
           /\ FailuresIn(win) = Len(win)
    /\ ret.value = FALSE

\* C2: a history is classified flaky iff its window holds at least 2 results,
\* at least one Passed and at least one Failed/Error, and the windowed rate is
\* strictly greater than the threshold (a rate equal to the threshold is not).
C2_FlakyIffGateAndRateAbove ==
    ret.op = "is_flaky" =>
        LET win == WindowOf(histories[1].results, ret.window_size)
            gate == Len(win) >= 2 /\ ~NoPassedIn(win) /\ ~NoFailureIn(win)
        IN  ret.value =
                (gate /\ FailuresIn(win) * ret.threshold.den
                            > ret.threshold.num * Len(win))

\* the gate passes and the rate equals the threshold exactly
C2_Witness ==
    /\ ret.op = "is_flaky"
    /\ LET win == WindowOf(histories[1].results, ret.window_size)
       IN  /\ Len(win) >= 2 /\ ~NoPassedIn(win) /\ ~NoFailureIn(win)
           /\ FailuresIn(win) * ret.threshold.den = ret.threshold.num * Len(win)
    /\ ret.value = FALSE

\* C7: the windowed rate is (Failed or Error results in the window) divided by
\* (all results in the window, Passed and Skipped included), and 0.0 when the
\* window is empty.
C7_RateIsFailuresOverWindowLength ==
    ret.op = "flakiness_rate" =>
        LET win == WindowOf(histories[1].results, ret.window_size)
        IN  IF Len(win) = 0
            THEN ret.value.num = 0 /\ ret.value.den > 0
            ELSE /\ ret.value.den > 0
                 /\ ret.value.num * Len(win) = FailuresIn(win) * ret.value.den

\* a window with a Skipped, a Passed and a Failed result
C7_Witness ==
    /\ ret.op = "flakiness_rate"
    /\ LET win == WindowOf(histories[1].results, ret.window_size)
       IN  /\ \E i \in 1 .. Len(win) : win[i].outcome = "SKIPPED"
           /\ ~NoPassedIn(win)
           /\ ~NoFailureIn(win)
           /\ ret.value.num * Len(win) = FailuresIn(win) * ret.value.den

\* C8: the window is the last min(windowSize, len) results in their original
\* order when windowSize >= 1 and the whole sequence when windowSize <= 0; the
\* rate and the classification are those of the window alone.
C8_WindowIsLastN ==
    LET h == histories[1]
        cut == [test_id |-> h.test_id, results |-> WindowOf(h.results, ret.window_size)]
    IN  /\ ret.op = "recent_results" => ret.value = cut.results
        /\ ret.op = "flakiness_rate" =>
               RateEq(ret.value, flakiness_rate(cut, ret.window_size))
        /\ ret.op = "is_flaky" =>
               ret.value = is_flaky(cut, ret.window_size, ret.threshold)

\* mixed older results followed by a window of only Passed results
C8_Witness ==
    /\ ret.op = "is_flaky"
    /\ ret.window_size >= 2
    /\ Len(histories[1].results) > ret.window_size
    /\ \E i \in 1 .. Len(histories[1].results) - ret.window_size :
          histories[1].results[i].outcome = "FAILED"
    /\ LET win == WindowOf(histories[1].results, ret.window_size)
       IN  \A i \in 1 .. Len(win) : win[i].outcome = "PASSED"
    /\ ret.value = FALSE

----------------------------------------------------------------------------
(* SpecDetect: detect_flaky_tests on a list of histories of distinct tests: *)
(* none, one test, or both tests in either order                            *)

DetectOutcomes == SeqsUpTo(TestOutcome, MaxDetectResults)

DetectThresholds == {Rate(0, 1), Rate(1, 3), Rate(1, 2)}

\* the configurations FlakyGuardConfig accepts (window_size >= 1)
Configs ==
    {Config(w, t, m) : w \in 1 .. MaxDetectResults, t \in DetectThresholds,
                       m \in QuarantineMode}

InitDetect ==
    /\ test_results = <<>>
    /\ metadata = {}
    /\ appended = <<>>
    /\ \/ histories = <<>>
       \/ \E id \in TestIds, os \in DetectOutcomes : histories = <<MakeHistory(id, os)>>
       \/ \E os1, os2 \in DetectOutcomes :
             \/ histories = <<MakeHistory("a", os1), MakeHistory("b", os2)>>
             \/ histories = <<MakeHistory("b", os2), MakeHistory("a", os1)>>
    /\ ret = NoCall
    /\ conns = <<>>
    /\ plugin = NoPlugin
    /\ items = <<>>
    /\ quarantined = {}

\* One call per behaviour: the function is pure and ret keeps only the last call,
\* so a call made after another reaches no state that a first call does not.
DetectFlakyTests ==
    /\ ret = NoCall
    /\ \E config \in Configs :
          ret' = [op |-> "detect_flaky_tests", config |-> config,
                  value |-> detect_flaky_tests(histories, config)]
    /\ UNCHANGED <<test_results, metadata, appended, histories, conns, plugin, items, quarantined>>

NextDetect == DetectFlakyTests

SpecDetect == InitDetect /\ [][NextDetect]_vars

----------------------------------------------------------------------------
(* Properties of detect_flaky_tests (checked under SpecDetect) *)

IdRank(id) == CASE id = "a" -> 1 [] id = "b" -> 2

\* the input history an emitted result was built from
HistoryOf(id) == CHOOSE i \in 1 .. Len(histories) : histories[i].test_id = id

SameRate(f, g) ==
    f.flakiness_rate.num * g.flakiness_rate.den = g.flakiness_rate.num * f.flakiness_rate.den

C6_SortedByRateDescending ==
    ret.op = "detect_flaky_tests" =>
        \A i \in 1 .. Len(ret.value) - 1 :
            ret.value[i].flakiness_rate.num * ret.value[i + 1].flakiness_rate.den
                >= ret.value[i + 1].flakiness_rate.num * ret.value[i].flakiness_rate.den

\* two flaky tests, the one supplied second with the strictly higher rate
C6_Witness ==
    /\ ret.op = "detect_flaky_tests"
    /\ Len(ret.value) = 2
    /\ ~SameRate(ret.value[1], ret.value[2])
    /\ ret.value[1].test_id = histories[2].test_id

\* C9: every emitted result has totalRuns = the number of results in the
\* window, failures = the Failed/Error results in the window, flakinessRate =
\* the windowed rate, lastSeen = the timestamp of the window's last result and
\* quarantineMode = the configuration's mode.
C9_EmittedFields ==
    ret.op = "detect_flaky_tests" =>
        \A k \in 1 .. Len(ret.value) :
            LET f == ret.value[k]
            IN  /\ \E i \in 1 .. Len(histories) : histories[i].test_id = f.test_id
                /\ LET win == WindowOf(histories[HistoryOf(f.test_id)].results,
                                       ret.config.window_size)
                   IN  /\ Len(win) > 0
                       /\ f.total_runs = Len(win)
                       /\ f.failures = FailuresIn(win)
                       /\ f.flakiness_rate.den > 0
                       /\ f.flakiness_rate.num * Len(win) = FailuresIn(win) * f.flakiness_rate.den
                       /\ f.last_seen = win[Len(win)].timestamp
                       /\ f.quarantine_mode = ret.config.quarantine_mode

\* a result emitted for a history longer than the window, in SKIP mode
C9_Witness ==
    /\ ret.op = "detect_flaky_tests"
    /\ ret.config.quarantine_mode = "SKIP"
    /\ \E k \in 1 .. Len(ret.value) :
          /\ ret.value[k].total_runs = ret.config.window_size
          /\ Len(histories[HistoryOf(ret.value[k].test_id)].results) > ret.config.window_size

\* C29: every emitted result has total_runs >= 2 and 1 <= failures <=
\* total_runs - 1, so its flakiness rate lies strictly between 0 and 1.
C29_EmittedStrictlyBetween ==
    ret.op = "detect_flaky_tests" =>
        \A k \in 1 .. Len(ret.value) :
            LET f == ret.value[k]
            IN  /\ f.total_runs >= 2
                /\ f.failures >= 1
                /\ f.failures <= f.total_runs - 1
                /\ f.flakiness_rate.den > 0
                /\ f.flakiness_rate.num > 0
                /\ f.flakiness_rate.num < f.flakiness_rate.den

\* a result with all but one run of the window failed
C29_Witness ==
    /\ ret.op = "detect_flaky_tests"
    /\ \E k \in 1 .. Len(ret.value) :
          /\ ret.value[k].total_runs = 3
          /\ ret.value[k].failures = 2

\* C24: detect_flaky_tests is total and pure: for every list of histories
\* (the empty list, empty and single-result histories included) and every
\* valid configuration it returns a list and raises nothing, every FlakyTest it
\* builds is within the declared ranges, the list has at most one result per
\* input history, and the input list is left as it was.
C24_TotalAndPure ==
    /\ [](ret.op = "detect_flaky_tests" =>
            /\ ~detect_raises(histories, ret.config)
            /\ Len(ret.value) <= Len(histories)
            /\ \A k \in 1 .. Len(ret.value) :
                  /\ ret.value[k].flakiness_rate.num >= 0
                  /\ ret.value[k].flakiness_rate.num <= ret.value[k].flakiness_rate.den
                  /\ ret.value[k].total_runs >= 0
                  /\ ret.value[k].failures >= 0
                  /\ \E i \in 1 .. Len(histories) : histories[i].test_id = ret.value[k].test_id
            /\ \A k, l \in 1 .. Len(ret.value) :
                  k # l => ret.value[k].test_id # ret.value[l].test_id)
    /\ [][ret'.op = "detect_flaky_tests" => histories' = histories]_vars

\* a call on an empty history and a single-result history returns the empty list
C24_Witness ==
    /\ ret.op = "detect_flaky_tests"
    /\ Len(histories) = 2
    /\ histories[1].results = <<>>
    /\ Len(histories[2].results) = 1
    /\ ret.value = <<>>

----------------------------------------------------------------------------
(* SpecConfig: constructing a FlakyGuardConfig (core/models.py) and choosing a
   strategy with get_strategy (core/quarantine.py), on arguments of every
   kind a caller can pass *)

MaxInt == 3

ConfigInts == -1 .. MaxInt

ConfigThresholds == {Rate(-1, 2), Rate(0, 1), Rate(1, 2), Rate(1, 1), Rate(3, 2)}

\* a plain str, which is no member of an enumeration
Str(s) == [type |-> "str", str |-> s]

\* a member of QuarantineMode: a str too, with the text of its value
Member(m) ==
    [type |-> "QuarantineMode",
     str |-> CASE m = "WARN" -> "warn" [] m = "SKIP" -> "skip" [] m = "RETRY" -> "retry"]

\* QuarantineMode members, the plain strings equal to their values, and
\* plain strings equal to no member
ModeInputs ==
    {Member(m) : m \in QuarantineMode}
        \cup {Str("warn"), Str("skip"), Str("retry"), Str("WARN"), Str("invalid")}

\* the members a value is equal to: QuarantineMode is a str enumeration, so a
\* member equals (and hashes as) the plain string of its value
QuarantineModeOf(v) == {m \in QuarantineMode : Member(m).str = v.str}

ValueError == [raised |-> "ValueError"]

\* window_size is declared with ge=0
FlakyGuardConfig_ge0(w, t, m, r) ==
    IF /\ w >= 0
       /\ RateGe(t, Rate(0, 1)) /\ RateGe(Rate(1, 1), t)
       /\ QuarantineModeOf(m) # {}
       /\ r >= 1
    THEN [window_size |-> w, threshold |-> t,
          quarantine_mode |-> CHOOSE q \in QuarantineModeOf(m) : TRUE,
          retry_count |-> r]
    ELSE ValidationError

\* FlakyGuardConfig(window_size=w, threshold=t, quarantine_mode=m, retry_count=r):
\* pydantic validates the Field constraints in the constructor
FlakyGuardConfig(w, t, m, r) ==
    IF /\ w >= 1
       /\ RateGe(t, Rate(0, 1)) /\ RateGe(Rate(1, 1), t)
       /\ QuarantineModeOf(m) # {}
       /\ r >= 1
    THEN [window_size |-> w, threshold |-> t,
          quarantine_mode |-> CHOOSE q \in QuarantineModeOf(m) : TRUE,
          retry_count |-> r]
    ELSE ValidationError

WarnStrategy == [strategy |-> "WarnStrategy"]

SkipStrategy == [strategy |-> "SkipStrategy"]

RetryStrategy(retry_count) == [strategy |-> "RetryStrategy", retry_count |-> retry_count]

\* the Retry strategy is built without the caller's retry_count
get_strategy_default_retry(mode, retry_count) ==
    LET strategies == [q \in QuarantineMode |->
                          CASE q = "WARN" -> WarnStrategy
                            [] q = "SKIP" -> SkipStrategy
                            [] q = "RETRY" -> RetryStrategy(3)]
    IN  IF QuarantineModeOf(mode) = {} THEN ValueError
        ELSE strategies[CHOOSE q \in QuarantineModeOf(mode) : TRUE]

\* get_strategy: strategies.get(mode), ValueError when there is none
get_strategy(mode, retry_count) ==
    LET strategies == [q \in QuarantineMode |->
                          CASE q = "WARN" -> WarnStrategy
                            [] q = "SKIP" -> SkipStrategy
                            [] q = "RETRY" -> RetryStrategy(retry_count)]
    IN  IF QuarantineModeOf(mode) = {} THEN ValueError
        ELSE strategies[CHOOSE q \in QuarantineModeOf(mode) : TRUE]

\* f"{rate:.1%}": the rate in tenths of a percent, rounded
Percent1(rate) == (2 * 1000 * rate.num + rate.den) \div (2 * rate.den)

\* item.add_marker(marker): the marker joins the item's own markers
add_marker(item, marker) == [item EXCEPT !.own_markers = Append(@, marker)]

\* WarnStrategy.apply
WarnStrategy_apply(strategy, item, flaky_test) ==
    add_marker(item,
               [name |-> "xfail",
                kwargs |-> [strict |-> FALSE,
                            reason |-> [text |-> "Test is flaky",
                                        rate |-> Percent1(flaky_test.flakiness_rate),
                                        failures |-> flaky_test.failures,
                                        total_runs |-> flaky_test.total_runs]]])

\* the marker is xfail, under which pytest still runs the test
SkipStrategy_apply_xfail(strategy, item, flaky_test) ==
    add_marker(item,
               [name |-> "xfail",
                kwargs |-> [reason |-> [text |-> "Test in quarantine",
                                        rate |-> Percent1(flaky_test.flakiness_rate),
                                        failures |-> flaky_test.failures,
                                        total_runs |-> flaky_test.total_runs]]])

\* SkipStrategy.apply
SkipStrategy_apply(strategy, item, flaky_test) ==
    add_marker(item,
               [name |-> "skip",
                kwargs |-> [reason |-> [text |-> "Test in quarantine",
                                        rate |-> Percent1(flaky_test.flakiness_rate),
                                        failures |-> flaky_test.failures,
                                        total_runs |-> flaky_test.total_runs]]])

\* the rerun bound is the default of RetryStrategy, not the instance's
RetryStrategy_apply_default(strategy, item, flaky_test) ==
    add_marker(item,
               [name |-> "flaky",
                kwargs |-> [reruns |-> 3,
                            reason |-> [text |-> "Test is flaky",
                                        rate |-> Percent1(flaky_test.flakiness_rate),
                                        retry_count |-> 3]]])

\* RetryStrategy.apply
RetryStrategy_apply(strategy, item, flaky_test) ==
    add_marker(item,
               [name |-> "flaky",
                kwargs |-> [reruns |-> strategy.retry_count,
                            reason |-> [text |-> "Test is flaky",
                                        rate |-> Percent1(flaky_test.flakiness_rate),
                                        retry_count |-> strategy.retry_count]]])

\* strategy.apply(item, flaky_test): the item after the call
apply(strategy, item, flaky_test) ==
    CASE strategy.strategy = "WarnStrategy" -> WarnStrategy_apply(strategy, item, flaky_test)
      [] strategy.strategy = "SkipStrategy" -> SkipStrategy_apply(strategy, item, flaky_test)
      [] strategy.strategy = "RetryStrategy" -> RetryStrategy_apply(strategy, item, flaky_test)

Strategies == {WarnStrategy, SkipStrategy} \cup {RetryStrategy(n) : n \in 1 .. MaxInt}

\* a marker the test's author put on the item
OwnMarker == [name |-> "slow", kwargs |-> [reason |-> [text |-> "takes long"]]]

\* collected items, with and without a marker of their own
ApplyItems ==
    {[nodeid |-> id, own_markers |-> ms] : id \in TestIds, ms \in {<<>>, <<OwnMarker>>}}

\* classifications as detect_flaky_tests emits them
ApplyFlakyTests ==
    {[test_id |-> id, flakiness_rate |-> Rate(f, n), total_runs |-> n, failures |-> f,
      last_seen |-> Stamp(n, 0), quarantine_mode |-> m] :
        id \in TestIds, f \in {1}, n \in {2, 3}, m \in QuarantineMode}

InitConfig ==
    /\ test_results = <<>>
    /\ metadata = {}
    /\ appended = <<>>
    /\ histories = <<>>
    /\ ret = NoCall
    /\ conns = <<>>
    /\ plugin = NoPlugin
    /\ items = <<>>
    /\ quarantined = {}

NewFlakyGuardConfig ==
    /\ \E w \in ConfigInts, t \in ConfigThresholds, m \in ModeInputs, r \in ConfigInts :
          ret' = [op |-> "FlakyGuardConfig", window_size |-> w, threshold |-> t,
                  quarantine_mode |-> m, retry_count |-> r,
                  value |-> FlakyGuardConfig(w, t, m, r)]
    /\ UNCHANGED <<test_results, metadata, appended, histories, conns, plugin, items, quarantined>>

GetStrategy ==
    /\ \E mode \in ModeInputs, retry_count \in ConfigInts :
          ret' = [op |-> "get_strategy", mode |-> mode, retry_count |-> retry_count,
                  value |-> get_strategy(mode, retry_count)]
    /\ UNCHANGED <<test_results, metadata, appended, histories, conns, plugin, items, quarantined>>

\* strategy.apply(item, flaky_test) on a collected item
StrategyApply ==
    /\ \E strategy \in Strategies, item \in ApplyItems, flaky_test \in ApplyFlakyTests :
          ret' = [op |-> "apply", strategy |-> strategy, item |-> item,
                  flaky_test |-> flaky_test,
                  value |-> apply(strategy, item, flaky_test)]
    /\ UNCHANGED <<test_results, metadata, appended, histories, conns, plugin, items, quarantined>>

NextConfig == NewFlakyGuardConfig \/ GetStrategy \/ StrategyApply

SpecConfig == InitConfig /\ [][NextConfig]_vars

(* Properties of SpecConfig *)

\* C19: constructing a configuration fails when window_size < 1, when
\* threshold < 0 or > 1, or when retry_count < 1, and succeeds (with a
\* recognised mode) for every value inside those ranges; so every
\* configuration that exists holds a window size >= 1, a threshold within
\* [0, 1], a retry count >= 1 and a member of QuarantineMode.
C19_ConfigValidated ==
    ret.op = "FlakyGuardConfig" =>
        LET inside == /\ ret.window_size >= 1
                      /\ ret.threshold.num >= 0
                      /\ ret.threshold.num <= ret.threshold.den
                      /\ ret.retry_count >= 1
        IN  /\ ~inside => ret.value = ValidationError
            /\ (inside /\ QuarantineModeOf(ret.quarantine_mode) # {}) =>
                   ret.value # ValidationError
            /\ ret.value # ValidationError =>
                   /\ ret.value.window_size = ret.window_size
                   /\ ret.value.window_size >= 1
                   /\ ret.value.threshold = ret.threshold
                   /\ ret.value.threshold.num >= 0
                   /\ ret.value.threshold.num <= ret.value.threshold.den
                   /\ ret.value.retry_count = ret.retry_count
                   /\ ret.value.retry_count >= 1
                   /\ ret.value.quarantine_mode \in QuarantineMode

\* a construction rejected for its window size alone
C19_Witness ==
    /\ ret.op = "FlakyGuardConfig"
    /\ ret.window_size = 0
    /\ ret.threshold = Rate(1, 2)
    /\ ret.retry_count = 1
    /\ ret.quarantine_mode = Member("WARN")
    /\ ret.value = ValidationError

\* C20: get_strategy returns the Warn strategy for WARN, the Skip strategy for
\* SKIP and a Retry strategy carrying exactly the given retry count for RETRY,
\* and raises for every mode value that equals none of the three members.
C20_StrategyForMode ==
    ret.op = "get_strategy" =>
        LET members == QuarantineModeOf(ret.mode)
        IN  /\ "WARN" \in members => ret.value = WarnStrategy
            /\ "SKIP" \in members => ret.value = SkipStrategy
            /\ "RETRY" \in members =>
                   /\ ret.value.strategy = "RetryStrategy"
                   /\ ret.value.retry_count = ret.retry_count
            /\ members = {} => ret.value = ValueError

\* a Retry strategy with a retry count other than the default
C20_Witness ==
    /\ ret.op = "get_strategy"
    /\ ret.mode = Member("RETRY")
    /\ ret.retry_count = 2
    /\ ret.value = RetryStrategy(2)

\* C21: an apply call attaches exactly one marker to the item it is given and
\* changes nothing else (the item's earlier markers and id, the stored
\* results): xfail with strict=False for the Warn strategy, skip for the Skip
\* strategy, and flaky with reruns equal to the strategy's retry count for the
\* Retry strategy.
C21_ApplyAttachesOneMarker ==
    /\ [](ret.op = "apply" =>
            LET before == ret.item.own_markers
                after == ret.value.own_markers
                marker == after[Len(after)]
            IN  /\ ret.value.nodeid = ret.item.nodeid
                /\ Len(after) = Len(before) + 1
                /\ SubSeq(after, 1, Len(before)) = before
                /\ ret.strategy.strategy = "WarnStrategy" =>
                       (marker.name = "xfail" /\ marker.kwargs.strict = FALSE)
                /\ ret.strategy.strategy = "SkipStrategy" => marker.name = "skip"
                /\ ret.strategy.strategy = "RetryStrategy" =>
                       (marker.name = "flaky"
                            /\ marker.kwargs.reruns = ret.strategy.retry_count))
    /\ [][ret'.op = "apply" =>
              UNCHANGED <<test_results, metadata, appended, histories>>]_vars

\* a Retry strategy applied to an item that already carries a marker
C21_Witness ==
    /\ ret.op = "apply"
    /\ ret.strategy = RetryStrategy(2)
    /\ ret.item.own_markers = <<OwnMarker>>
    /\ Len(ret.value.own_markers) = 2
    /\ ret.value.own_markers[2].kwargs.reruns = 2

----------------------------------------------------------------------------
(* SpecPlugin: pytest sessions with the plugin registered (plugin.py), and
   the clear and report commands of the CLI (cli.py) run in between.  The
   options are the same in every session. *)

MaxMarkers == 2

PluginThresholds == {Rate(0, 1), Rate(1, 2)}

\* the queries of one call have the same text and get the same plan
SamePlans == {[id \in TestIds |-> p] : p \in QueryPlans}

\* the strategy acts on the items whose id is a key of flaky_tests_map
apply_to_flagged(strategy, its, flaky_tests_map) ==
    [id \in DOMAIN its |->
        IF id \in DOMAIN flaky_tests_map
        THEN apply(strategy, its[id], flaky_tests_map[id])
        ELSE its[id]]

\* for flaky in flaky_tests: self.flaky_tests_map[flaky.test_id] = flaky
update_map(flaky_tests_map, flaky_tests) ==
    LET flagged == {flaky_tests[i].test_id : i \in 1 .. Len(flaky_tests)}
    IN  [id \in DOMAIN flaky_tests_map \cup flagged |->
            IF id \in flagged
            THEN flaky_tests[CHOOSE i \in 1 .. Len(flaky_tests) :
                                 /\ flaky_tests[i].test_id = id
                                 /\ \A j \in i + 1 .. Len(flaky_tests) :
                                       flaky_tests[j].test_id # id]
            ELSE flaky_tests_map[id]]

\* the items of pytest_collection_modifyitems after the handler
modifyitems(its, flaky_tests_map, flaky_tests, config) ==
    IF flaky_tests = <<>> THEN its
    ELSE apply_to_flagged(get_strategy(Member(config.quarantine_mode), config.retry_count),
                          its, update_map(flaky_tests_map, flaky_tests))

HasMarker(item, name) ==
    \E i \in 1 .. Len(item.own_markers) : item.own_markers[i].name = name

\* the reports pytest makes for a test that runs, and for one it skips
RunReports(o) ==
    <<[when |-> "setup", outcome |-> "passed", duration |-> 2],
      [when |-> "call", outcome |-> o, duration |-> 2],
      [when |-> "teardown", outcome |-> "passed", duration |-> 2]>>

SkipReports ==
    <<[when |-> "setup", outcome |-> "skipped", duration |-> 2],
      [when |-> "teardown", outcome |-> "passed", duration |-> 2]>>

\* the table after the hook has seen each of the reports
RECURSIVE makereports(_, _, _)
makereports(rows, nodeid, reports) ==
    IF reports = <<>> THEN rows
    ELSE makereports(makereport(rows, nodeid, Head(reports)), nodeid, Tail(reports))

\* the items handed to pytest_collection_modifyitems: those of the session,
\* collected before the first call
Collected(its) == IF its = <<>> THEN [id \in TestIds |-> Item(id)] ELSE its

InitPlugin ==
    /\ test_results = <<>>
    /\ metadata = {SchemaVersion}
    /\ appended = <<>>
    /\ histories = <<>>
    /\ ret = NoCall
    /\ conns = <<>>
    /\ \E w \in 1 .. MaxRows, t \in PluginThresholds, m \in QuarantineMode :
          plugin = FlakyGuardPlugin(FlakyGuardConfig(w, t, Member(m), 2))
    /\ items = <<>>
    /\ quarantined = {}

\* a new session: pytest_configure registers a new FlakyGuardPlugin; nothing
\* is collected yet
PytestConfigure ==
    /\ plugin' = FlakyGuardPlugin(plugin.config)
    /\ metadata' = InsertOrIgnore(metadata, SchemaVersion)
    /\ items' = <<>>
    /\ ret' = [op |-> "pytest_configure"]
    /\ UNCHANGED <<test_results, appended, histories, conns, quarantined>>

CollectionModifyItems ==
    /\ \A id \in TestIds : Len(Collected(items)[id].own_markers) < MaxMarkers
    /\ \E test_ids \in DistinctTestIds(test_results), plans \in SamePlans :
          LET hs == get_all_histories(test_results, test_ids,
                                      plugin.config.window_size, plans)
              flaky_tests == detect_flaky_tests(hs, plugin.config)
          IN  /\ ~detect_raises(hs, plugin.config)
              /\ plugin' = [plugin EXCEPT
                               !.flaky_tests_map = update_map(@, flaky_tests)]
              /\ items' = modifyitems(Collected(items), plugin.flaky_tests_map, flaky_tests,
                                      plugin.config)
              /\ quarantined' =
                     IF plugin.config.quarantine_mode = "SKIP"
                     THEN quarantined
                              \cup {flaky_tests[i].test_id : i \in 1 .. Len(flaky_tests)}
                     ELSE quarantined
              /\ ret' = [op |-> "pytest_collection_modifyitems", test_ids |-> test_ids,
                         flaky_tests |-> flaky_tests, first |-> items = <<>>,
                         known |-> quarantined]
    /\ UNCHANGED <<test_results, metadata, appended, histories, conns>>

\* pytest runs one test, or skips it when it carries a skip marker, and the
\* hook sees the report of each phase
RunTest ==
    \E id \in DOMAIN items, o \in {"passed", "failed", "skipped"} :
        LET reports == IF HasMarker(items[id], "skip") THEN SkipReports
                       ELSE RunReports(o)
        IN  /\ items # <<>>
            /\ Len(test_results) < MaxRows
            /\ test_results' = makereports(test_results, id, reports)
            /\ appended' = IF Len(test_results') > Len(test_results)
                           THEN Append(appended,
                                       ReportResult(id, reports[2], now(test_results)))
                           ELSE appended
            /\ ret' = [op |-> "pytest_runtest_makereport", nodeid |-> id,
                       report |-> reports[Len(reports)]]
            /\ UNCHANGED <<metadata, histories, conns, plugin, items, quarantined>>

\* flakyguard report, with the options of the sessions
ReportCommand ==
    /\ \E test_ids \in DistinctTestIds(test_results), plans \in SamePlans :
          LET hs == get_all_histories(test_results, test_ids,
                                      plugin.config.window_size, plans)
          IN  /\ ~detect_raises(hs, plugin.config)
              /\ ret' = [op |-> "report_command", test_ids |-> test_ids,
                         flaky_tests |-> detect_flaky_tests(hs, plugin.config)]
    /\ metadata' = InsertOrIgnore(metadata, SchemaVersion)
    /\ UNCHANGED <<test_results, appended, histories, conns, plugin, items, quarantined>>

\* flakyguard clear
ClearCommand ==
    /\ metadata' = InsertOrIgnore(metadata, SchemaVersion)
    /\ test_results' = <<>>
    /\ appended' = <<>>
    /\ quarantined' = {}
    /\ ret' = [op |-> "clear_command"]
    /\ UNCHANGED <<histories, conns, plugin, items>>

NextPlugin ==
    \/ PytestConfigure
    \/ CollectionModifyItems
    \/ RunTest
    \/ ReportCommand
    \/ ClearCommand

SpecPlugin == InitPlugin /\ [][NextPlugin]_vars

(* Properties of SpecPlugin *)

FlaggedIds(flaky_tests) == {flaky_tests[i].test_id : i \in 1 .. Len(flaky_tests)}

ModifyItemsStep == ret'.op = "pytest_collection_modifyitems" /\ vars' # vars

MarkerName(mode) ==
    CASE mode = "WARN" -> "xfail" [] mode = "SKIP" -> "skip" [] mode = "RETRY" -> "flaky"

\* C22: in every call of pytest_collection_modifyitems, the first of a plugin
\* instance or a later one, each item gets the marker of the configured mode
\* exactly once if its id is in the flaky list that this call's detection
\* returned, and is left as it was otherwise; with an empty list no item is
\* touched.
C22_OneActionPerFlagged ==
    [][ModifyItemsStep =>
          \A id \in TestIds :
              LET before == Collected(items)[id]
                  after == items'[id]
              IN  IF id \in FlaggedIds(ret'.flaky_tests)
                  THEN /\ Len(after.own_markers) = Len(before.own_markers) + 1
                       /\ SubSeq(after.own_markers, 1, Len(before.own_markers))
                              = before.own_markers
                       /\ after.own_markers[Len(after.own_markers)].name
                              = MarkerName(plugin.config.quarantine_mode)
                  ELSE after = before]_vars

\* all results appended for a test and not cleared, oldest first
FullHistory(id) ==
    LET Of(r) == r.test_id = id
    IN  [test_id |-> id, results |-> SelectSeq(appended, Of)]

FullHistories(test_ids) == [i \in 1 .. Len(test_ids) |-> FullHistory(test_ids[i])]

\* C25: the flaky list that the plugin and the report command compute from
\* get_all_histories(w) and detect_flaky_tests with the same w is the list
\* that detect_flaky_tests returns, with window w, on the complete histories
\* of the same tests.
C25_TruncatedSameAsFull ==
    ret.op \in {"pytest_collection_modifyitems", "report_command"} =>
        /\ ~detect_raises(FullHistories(ret.test_ids), plugin.config)
        /\ ret.flaky_tests = detect_flaky_tests(FullHistories(ret.test_ids), plugin.config)

\* a flagged test whose stored history is longer than the window
C25_Witness ==
    /\ ret.op = "pytest_collection_modifyitems"
    /\ \E id \in FlaggedIds(ret.flaky_tests) :
          /\ Len(FullHistory(id).results) > plugin.config.window_size
          /\ plugin.config.window_size = 2

\* C27: in Skip mode, while the database is not cleared: no step changes the
\* stored results of a test whose item carries the skip marker, and a test
\* that an earlier call flagged is flagged again, and its item marked skip,
\* by every later call of pytest_collection_modifyitems.
C27_SkippedStaysFlagged ==
    /\ [][(plugin.config.quarantine_mode = "SKIP" /\ ret'.op # "clear_command") =>
              \A id \in DOMAIN items :
                  HasMarker(items[id], "skip") =>
                      WhereTestId(test_results', id) = WhereTestId(test_results, id)]_vars
    /\ [][(ModifyItemsStep /\ plugin.config.quarantine_mode = "SKIP") =>
              \A id \in quarantined :
                  /\ id \in FlaggedIds(ret'.flaky_tests)
                  /\ HasMarker(items'[id], "skip")]_vars

\* the first call of a session flags a test that an earlier session flagged
C27_Witness ==
    /\ plugin.config.quarantine_mode = "SKIP"
    /\ ret.op = "pytest_collection_modifyitems"
    /\ ret.first
    /\ \E id \in ret.known :
          /\ id \in FlaggedIds(ret.flaky_tests)
          /\ HasMarker(items[id], "skip")
          /\ \E i \in 1 .. Len(test_results) : test_results[i].test_id # id

====
